---- MODULE Spec2Model ----
(***************************************************************************)
(* Model of bookInfoAutomation: src/main.py (read_code, get_info,          *)
(* add_database, copy_and_name, main) and src/test.py (pageSelector).      *)
(*                                                                         *)
(* Barcode payloads are digit strings, modelled as sequences of digits     *)
(* (shortened from the 13 digits of an EAN-13 symbol; the three-digit      *)
(* prefix the code looks at is kept).  A PDF is the sequence of its pages, *)
(* each page being the list of payloads the decoder returns for it.        *)
(***************************************************************************)
EXTENDS Integers, Sequences, FiniteSets, TLC

VARIABLES
    \* ---- one call of read_code / pageSelector (SpecScan) ----
    pdf_is_pdf,        \* os.path.splitext(pdf_path)[1] == ".pdf"
    doc,               \* the document: sequence of pages, a page = sequence of payloads
    number_of_pages,   \* the requested window (read_code) / pageAmount (pageSelector)
    starting_point,    \* "end" or "first"
    read_result,       \* outcome of read_code, "none" before the call
    sel_result,        \* outcome of pageSelector, "none" before the call
    \* ---- the CSV store under add_database (SpecStore) ----
    csv_exists,        \* os.path.isfile("book_infoAutomation.csv")
    csv_rows,          \* the isbn cell of each row of the CSV, in file order
    last_add,          \* the last add_database call: its input, the rows before, its outcome
    \* ---- main (SpecMain) ----
    pdf_files,         \* the documents of the source directory, in list order
    pc,                \* position of main
    idx,               \* number of completed iterations of the current loop
    error_pathes,      \* files read_code returned the path for
    still_cant_find,   \* files skipped with "!" in the manual pass
    copied,            \* files copied to the destination directory
    stored,            \* files whose record was handed to add_database
    outcome            \* per file: how its last iteration ended

scanVars  == <<pdf_is_pdf, doc, number_of_pages, starting_point, read_result, sel_result>>
storeVars == <<csv_exists, csv_rows, last_add>>
mainVars  == <<pdf_files, pc, idx, error_pathes, still_cant_find, copied, stored, outcome>>
vars      == <<scanVars, storeVars, mainVars>>

----------------------------------------------------------------------------
(* Bounds *)
MaxPages  == 3     \* longest document
MaxWindow == 4     \* largest requested window
MaxRows   == 5     \* most rows the store is grown to (SpecStore)
MaxFiles  == 2     \* most PDF files in the source directory (SpecMain)

----------------------------------------------------------------------------
(* Payloads the decoder can return *)
ISBN_A   == <<9, 7, 8, 4>>     \* ISBN, prefix 978
ISBN_B   == <<9, 7, 9, 1>>     \* ISBN, prefix 979
DETAIL_C == <<1, 9, 2, 0>>     \* detail code, prefix 192
OTHER_EAN == <<0, 4, 9, 0>>    \* another product's EAN-13 (a UPC-A number, padded with 0)
ZERO_LED == <<0, 9, 7, 8>>     \* an EAN-13 whose digits after the leading 0 are 978

\* The pages a document is made of: every payload count the code branches on
\* (0, 1, 2, 3) and every way two payloads classify.
Pages ==
    { <<>>,
      <<ISBN_A>>,
      <<ISBN_A, DETAIL_C>>,
      <<DETAIL_C, ISBN_B>>,
      <<ISBN_A, OTHER_EAN>>,
      <<OTHER_EAN, DETAIL_C>>,
      <<ISBN_A, ISBN_B>>,
      <<ZERO_LED, DETAIL_C>>,
      <<ISBN_A, DETAIL_C, OTHER_EAN>> }

Docs == UNION { [1..n -> Pages] : n \in 1..MaxPages }

----------------------------------------------------------------------------
(* Python built-ins used by the code *)

RECURSIVE PyInt(_)
\* int(s) of a digit string
PyInt(s) ==
    IF s = <<>> THEN 0
    ELSE PyInt(SubSeq(s, 1, Len(s) - 1)) * 10 + s[Len(s)]

RECURSIVE PyStr(_)
\* str(n) of a natural number
PyStr(n) ==
    IF n < 10 THEN <<n>> ELSE PyStr(n \div 10) \o <<n % 10>>

\* s.startswith(p)
StartsWith(s, p) == Len(s) >= Len(p) /\ SubSeq(s, 1, Len(p)) = p

\* range(a, b) as the sequence of its elements
PyRange(a, b) == [k \in 1..(IF b > a THEN b - a ELSE 0) |-> a + k - 1]

\* d[k] = v on a dict
DictPut(d, k, v) == [x \in (DOMAIN d) \cup {k} |-> IF x = k THEN v ELSE d[x]]

EmptyDict == [x \in {} |-> <<>>]

----------------------------------------------------------------------------
(* src/test.py: pageSelector *)

SelNone == [kind |-> "none", first_page |-> 0, last_page |-> 0]
SelRaise == [kind |-> "ValueError", first_page |-> 0, last_page |-> 0]
SelReturn(f, l) == [kind |-> "return", first_page |-> f, last_page |-> l]

\* the "end" branch: the first page of the range
EndFirstPageOff(page_count, pageAmount) == page_count - pageAmount
EndFirstPage(page_count, pageAmount) == page_count - (pageAmount - 1)

\* pageSelector(pdfPath, pageAmount, startingPoint); page_count is
\* len(pypdf.PdfReader(pdfPath).pages)
pageSelector(page_count, pageAmount, startingPoint) ==
    IF startingPoint = "end" THEN
        LET last_page  == page_count
            first_page == EndFirstPage(page_count, pageAmount)
        IN  IF first_page < 1 THEN SelRaise ELSE SelReturn(first_page, last_page)
    ELSE
        LET first_page == 1
            last_page  == page_count + (pageAmount - 1)
        IN  IF last_page > page_count THEN SelRaise ELSE SelReturn(first_page, last_page)

----------------------------------------------------------------------------
(* src/main.py: read_code *)

ReadNone == [kind |-> "none", book_JAN |-> EmptyDict, page_range |-> <<>>, rendered |-> <<>>]

\* lines 56-61: the page indexes to scan
PageRange(n, anchor) ==
    IF anchor = "end" THEN PyRange(-1 * n, 0) ELSE PyRange(0, n)

\* line 63: the range check
RangeTooLongOff(page_range, page_count) == Len(page_range) > page_count + 1
RangeTooLong(page_range, page_count) == Len(page_range) > page_count

\* doc.load_page(i): the 1-based number of the page index i names; a negative
\* index counts from the end.
RECURSIVE PageNo(_, _)
PageNo(i, page_count) ==
    IF i < 0 THEN PageNo(i + page_count, page_count) ELSE i + 1

\* lines 84-90: the payloads of one page put into book_JAN, in decode order
RECURSIVE Classify(_, _)
Classify(book_JAN, bcodes) ==
    IF bcodes = <<>> THEN book_JAN
    ELSE LET data == PyStr(PyInt(Head(bcodes)))
             next == IF StartsWith(data, <<9, 7, 8>>) \/ StartsWith(data, <<9, 7, 9>>)
                        THEN DictPut(book_JAN, "isbn", data)
                     ELSE IF StartsWith(data, <<1, 9, 2>>)
                        THEN DictPut(book_JAN, "detailed_code", data)
                     ELSE book_JAN
         IN  Classify(next, Tail(bcodes))

\* lines 68-93: the loop over page_range, from position k with book_JAN so far.
\* load_page raises for an index past the last page.
RECURSIVE ScanLoop(_, _, _, _, _)
ScanLoop(d, page_range, k, book_JAN, rendered) ==
    IF k > Len(page_range)
       THEN [kind |-> "done", book_JAN |-> book_JAN, rendered |-> rendered]
    ELSE IF page_range[k] >= Len(d)
       THEN [kind |-> "PageError", book_JAN |-> book_JAN, rendered |-> rendered]
    ELSE LET p      == PageNo(page_range[k], Len(d))
             bcodes == d[p]
             seen   == Append(rendered, p)
         IN  IF Len(bcodes) <= 1 \/ Len(bcodes) >= 3
                THEN ScanLoop(d, page_range, k + 1, book_JAN, seen)
             ELSE LET jan == Classify(book_JAN, bcodes)
                  IN  IF Cardinality(DOMAIN jan) = 2
                         THEN [kind |-> "done", book_JAN |-> jan, rendered |-> seen]
                      ELSE ScanLoop(d, page_range, k + 1, jan, seen)

\* read_code(pdf_path, number_of_pages, starting_point): "dict" and "path" are
\* the two returns, the other kinds are the exceptions raised
read_code(is_pdf, d, n, anchor) ==
    IF ~is_pdf THEN
        [kind |-> "NotPdfError", book_JAN |-> EmptyDict, page_range |-> <<>>, rendered |-> <<>>]
    ELSE LET page_range == PageRange(n, anchor)
         IN  IF RangeTooLong(page_range, Len(d)) THEN
                 [kind |-> "RangeError", book_JAN |-> EmptyDict,
                  page_range |-> page_range, rendered |-> <<>>]
             ELSE LET r == ScanLoop(d, page_range, 1, EmptyDict, <<>>)
                  IN  [kind |-> IF r.kind # "done" THEN r.kind
                                ELSE IF DOMAIN r.book_JAN # {} THEN "dict" ELSE "path",
                       book_JAN |-> r.book_JAN,
                       page_range |-> page_range, rendered |-> r.rendered]

----------------------------------------------------------------------------
(* src/main.py: get_info, add_database, copy_and_name *)

\* What the catalog request can come back with: one item with a title and a
\* description, an item lacking one of them, no item, or no response at all.
Responses == {"item", "item_untitled", "no_item", "transport_error"}

\* get_info(isbn): response is what requests.get / ET.fromstring produce
get_info(isbn, response) ==
    IF response = "transport_error" THEN
        [kind |-> "TransportError", isbn |-> isbn, titled |-> FALSE]
    ELSE IF response = "no_item" THEN
        [kind |-> "LookupNotFound", isbn |-> isbn, titled |-> FALSE]
    ELSE
        [kind |-> "return", isbn |-> isbn, titled |-> (response = "item")]

\* line 146: the rows of the store whose isbn equals int(book_info["isbn"])
SameIsbnRows(rows, isbn) == {i \in 1..Len(rows) : PyInt(rows[i]) = PyInt(isbn)}

\* add_database(book_info) on the store (exists, rows); write_fails is the
\* final to_csv failing (the file is locked or the disk is full)
add_database(exists, rows, isbn, write_fails) ==
    LET created == IF exists THEN rows ELSE <<>>
        result  == SameIsbnRows(created, isbn)
        printed == Cardinality(result) > 0
        df      == Append(created, isbn)
    IN  IF write_fails
           THEN [kind |-> "OSError", exists |-> TRUE, rows |-> created, printed |-> printed]
           ELSE [kind |-> "return", exists |-> TRUE, rows |-> df, printed |-> printed]

\* copy_and_name(origin_file_path, yield_folder_path, book_info): the lookups
\* of "title{}" and "description{}" and the final shutil.copy
copy_and_name(book_info, copy_fails) ==
    IF ~book_info.titled THEN "KeyError"
    ELSE IF copy_fails THEN "OSError"
    ELSE "copied"

\* the record of one add_database call
AddRecord(isbn, exists, rows, r) ==
    [isbn   |-> isbn,
     before |-> IF exists THEN rows ELSE <<>>,
     dup    |-> exists /\ \E i \in 1..Len(rows) : rows[i] = isbn,
     result |-> r.kind]

----------------------------------------------------------------------------
(* src/main.py: main *)

ScanWindow == 3        \* read_code(i, 3, "end")

\* Characters are numbers: a digit is its value, "!" is 33.
SKIP == <<33>>

\* what the user types at the prompt
ManualInputs == {SKIP, ISBN_A, ISBN_B}

\* The state main leaves after get_info, add_database and copy_and_name on
\* file f with ISBN isbn (lines 227-238 and 259-261).  caught: whether the
\* call sites of get_info and add_database are inside try/except.
Pipeline(f, isbn, response, write_fails, copy_fails, caught) ==
    LET info == get_info(isbn, response)
        add  == add_database(csv_exists, csv_rows, isbn, write_fails)
        cp   == copy_and_name(info, copy_fails)
        same == [pc |-> pc, idx |-> idx + 1, csv_exists |-> csv_exists,
                 csv_rows |-> csv_rows, last_add |-> last_add,
                 stored |-> stored, copied |-> copied, outcome |-> "pending"]
        withAdd == [same EXCEPT !.csv_exists = add.exists, !.csv_rows = add.rows,
                                !.last_add = AddRecord(isbn, csv_exists, csv_rows, add)]
    IN  IF info.kind # "return" THEN
            IF caught THEN [same EXCEPT !.outcome = info.kind]
            ELSE [same EXCEPT !.outcome = info.kind, !.pc = "aborted", !.idx = idx]
        ELSE IF add.kind # "return" THEN
            IF caught THEN [withAdd EXCEPT !.outcome = "StoreError"]
            ELSE [withAdd EXCEPT !.outcome = "StoreError", !.pc = "aborted", !.idx = idx]
        ELSE IF cp # "copied" THEN
            [withAdd EXCEPT !.stored = stored \cup {f}, !.outcome = "CopyError",
                            !.pc = "aborted", !.idx = idx]
        ELSE
            [withAdd EXCEPT !.stored = stored \cup {f}, !.copied = copied \cup {f},
                            !.outcome = "resolved"]

\* lines 214-240: one iteration of the automatic pass, on file idx + 1
AutoIteration ==
    /\ pc = "auto" /\ idx < Len(pdf_files)
    /\ LET f        == idx + 1
           book_JAN == read_code(TRUE, pdf_files[f], ScanWindow, "end")
       IN  IF book_JAN.kind \notin {"dict", "path"} THEN
               \* read_code raised: nothing catches it
               /\ pc' = "aborted"
               /\ outcome' = [outcome EXCEPT ![f] = book_JAN.kind]
               /\ UNCHANGED <<idx, error_pathes, copied, stored, storeVars>>
           ELSE IF book_JAN.kind = "path" THEN
               /\ error_pathes' = Append(error_pathes, f)
               /\ idx' = idx + 1
               /\ outcome' = [outcome EXCEPT ![f] = "no_code"]
               /\ UNCHANGED <<pc, copied, stored, storeVars>>
           ELSE IF "isbn" \notin DOMAIN book_JAN.book_JAN THEN
               \* book_JAN["isbn"] raises KeyError inside the try
               /\ idx' = idx + 1
               /\ outcome' = [outcome EXCEPT ![f] = "KeyError"]
               /\ UNCHANGED <<pc, error_pathes, copied, stored, storeVars>>
           ELSE
               \E response \in Responses, write_fails \in BOOLEAN, copy_fails \in BOOLEAN :
                   LET r == Pipeline(f, book_JAN.book_JAN["isbn"], response,
                                     write_fails, copy_fails, TRUE)
                   IN  /\ pc' = r.pc /\ idx' = r.idx
                       /\ csv_exists' = r.csv_exists /\ csv_rows' = r.csv_rows
                       /\ last_add' = r.last_add
                       /\ stored' = r.stored /\ copied' = r.copied
                       /\ outcome' = [outcome EXCEPT ![f] = r.outcome]
                       /\ UNCHANGED error_pathes
    /\ UNCHANGED <<pdf_files, still_cant_find, scanVars>>

\* lines 244-248: the automatic pass is over, the unread files are listed
StartManual ==
    /\ pc = "auto" /\ idx = Len(pdf_files)
    /\ pc' = "manual"
    /\ idx' = 0
    /\ still_cant_find' = <<>>
    /\ UNCHANGED <<pdf_files, error_pathes, copied, stored, outcome>>
    /\ UNCHANGED <<scanVars, storeVars>>

\* lines 250-263: one iteration of the manual pass, on error_pathes[idx + 1]
ManualIteration ==
    /\ pc = "manual" /\ idx < Len(error_pathes)
    /\ LET f == error_pathes[idx + 1]
       IN  \E isbn \in ManualInputs :
             IF isbn = SKIP THEN
                 /\ still_cant_find' = Append(still_cant_find, f)
                 /\ idx' = idx + 1
                 /\ outcome' = [outcome EXCEPT ![f] = "skipped"]
                 /\ UNCHANGED <<pc, copied, stored, storeVars>>
             ELSE
                 \E response \in Responses, write_fails \in BOOLEAN, copy_fails \in BOOLEAN :
                     LET r == Pipeline(f, isbn, response, write_fails, copy_fails, FALSE)
                     IN  /\ pc' = r.pc /\ idx' = r.idx
                         /\ csv_exists' = r.csv_exists /\ csv_rows' = r.csv_rows
                         /\ last_add' = r.last_add
                         /\ stored' = r.stored /\ copied' = r.copied
                         /\ outcome' = [outcome EXCEPT ![f] = r.outcome]
                         /\ UNCHANGED still_cant_find
    /\ UNCHANGED <<pdf_files, error_pathes, scanVars>>

\* lines 265-269: the final report, main returns
Report ==
    /\ pc = "manual" /\ idx = Len(error_pathes)
    /\ pc' = "done"
    /\ UNCHANGED <<pdf_files, idx, error_pathes, still_cant_find,
                   copied, stored, outcome>>
    /\ UNCHANGED <<scanVars, storeVars>>

----------------------------------------------------------------------------
(* Idle values of the parts a specification does not use *)

IdleScan ==
    /\ pdf_is_pdf = TRUE /\ doc = <<>> /\ number_of_pages = 0
    /\ starting_point = "end" /\ read_result = ReadNone /\ sel_result = SelNone

IdleStore ==
    /\ csv_exists = FALSE /\ csv_rows = <<>>
    /\ last_add = [isbn |-> <<>>, before |-> <<>>, dup |-> FALSE, result |-> "none"]

IdleMain ==
    /\ pdf_files = <<>> /\ pc = "idle" /\ idx = 0
    /\ error_pathes = <<>> /\ still_cant_find = <<>>
    /\ copied = {} /\ stored = {} /\ outcome = <<>>

----------------------------------------------------------------------------
(* SpecScan: one call of read_code and one of pageSelector on every input *)

InitScan ==
    /\ pdf_is_pdf \in BOOLEAN
    /\ doc \in Docs
    /\ number_of_pages \in 1..MaxWindow
    /\ starting_point \in {"end", "first"}
    /\ read_result = ReadNone
    /\ sel_result = SelNone
    /\ IdleStore /\ IdleMain

CallReadCode ==
    /\ read_result.kind = "none"
    /\ read_result' = read_code(pdf_is_pdf, doc, number_of_pages, starting_point)
    /\ UNCHANGED <<pdf_is_pdf, doc, number_of_pages, starting_point, sel_result>>
    /\ UNCHANGED <<storeVars, mainVars>>

CallPageSelector ==
    /\ sel_result.kind = "none"
    /\ sel_result' = pageSelector(Len(doc), number_of_pages, starting_point)
    /\ UNCHANGED <<pdf_is_pdf, doc, number_of_pages, starting_point, read_result>>
    /\ UNCHANGED <<storeVars, mainVars>>

NextScan == CallReadCode \/ CallPageSelector

SpecScan == InitScan /\ [][NextScan]_vars

----------------------------------------------------------------------------
(* SpecStore: any sequence of add_database calls on an absent or empty store *)

StoreIsbns == {ISBN_A, ISBN_B}

InitStore ==
    /\ csv_exists \in BOOLEAN
    /\ csv_rows = <<>>
    /\ last_add = [isbn |-> <<>>, before |-> <<>>, dup |-> FALSE, result |-> "none"]
    /\ IdleScan /\ IdleMain

AddDatabase ==
    /\ Len(csv_rows) < MaxRows
    /\ \E isbn \in StoreIsbns, write_fails \in BOOLEAN :
          LET r == add_database(csv_exists, csv_rows, isbn, write_fails)
          IN  /\ csv_exists' = r.exists
              /\ csv_rows' = r.rows
              /\ last_add' = AddRecord(isbn, csv_exists, csv_rows, r)
    /\ UNCHANGED <<scanVars, mainVars>>

NextStore == AddDatabase

SpecStore == InitStore /\ [][NextStore]_vars

----------------------------------------------------------------------------
(* SpecMain: one run of main over a source directory *)

NoCodePage == <<>>

\* The documents of the source directory: too short for the window, without
\* any code, with a complete pair (two different books), with a detail code only.
BatchDocs ==
    { << <<ISBN_A, DETAIL_C>> >>,
      << NoCodePage, NoCodePage, NoCodePage >>,
      << <<ISBN_A, DETAIL_C>>, NoCodePage, NoCodePage >>,
      << NoCodePage, <<DETAIL_C, ISBN_B>>, NoCodePage >>,
      << <<OTHER_EAN, DETAIL_C>>, NoCodePage, NoCodePage >> }

InitMain ==
    /\ pdf_files \in UNION { [1..n -> BatchDocs] : n \in 1..MaxFiles }
    /\ pc = "auto"
    /\ idx = 0
    /\ error_pathes = <<>>
    /\ still_cant_find = <<>>
    /\ copied = {}
    /\ stored = {}
    /\ outcome = [f \in 1..Len(pdf_files) |-> "pending"]
    /\ csv_exists \in BOOLEAN
    /\ csv_rows = <<>>
    /\ last_add = [isbn |-> <<>>, before |-> <<>>, dup |-> FALSE, result |-> "none"]
    /\ IdleScan

NextMain == AutoIteration \/ StartManual \/ ManualIteration \/ Report

SpecMain == InitMain /\ [][NextMain]_vars

----------------------------------------------------------------------------
(* Properties of read_code and pageSelector, checked under SpecScan *)

IsIsbn(payload)   == StartsWith(payload, <<9, 7, 8>>) \/ StartsWith(payload, <<9, 7, 9>>)
IsDetail(payload) == StartsWith(payload, <<1, 9, 2>>)

\* the page decoded exactly two payloads, an ISBN and a detail code
HasPair(page) ==
    /\ Len(page) = 2
    /\ \E a, b \in 1..2 : a # b /\ IsIsbn(page[a]) /\ IsDetail(page[b])

\* the page is a pair whose ISBN and detail code are those of the dict jan
PairOf(page, jan) ==
    /\ Len(page) = 2
    /\ DOMAIN jan = {"isbn", "detailed_code"}
    /\ \E a, b \in 1..2 :
          /\ a # b
          /\ IsIsbn(page[a]) /\ page[a] = jan["isbn"]
          /\ IsDetail(page[b]) /\ page[b] = jan["detailed_code"]

\* the 1-based numbers of the pages of the range read_code built
RangePages(r) == [k \in 1..Len(r.page_range) |-> PageNo(r.page_range[k], Len(doc))]

ReadCalled == read_result.kind # "none"
SelCalled  == sel_result.kind # "none"

\* C3: whenever read_code returns a dict, one scanned page decoded exactly two
\* payloads, the one with prefix 978/979 being the dict's isbn and the one with
\* prefix 192 its detailed_code; no dict with a single slot is returned.
C3_DictIsCompletePair ==
    read_result.kind = "dict" =>
        \E k \in 1..Len(read_result.rendered) :
            PairOf(doc[read_result.rendered[k]], read_result.book_JAN)

\* C6: when some page of the scanned range holds a complete pair, read_code
\* scans the range in ascending order, returns the code of the first such
\* page and renders no page after it.
C6_FirstPairWins ==
    LET pages == RangePages(read_result) IN
    (/\ read_result.kind \in {"dict", "path"}
     /\ \E k \in 1..Len(pages) : HasPair(doc[pages[k]]))
    =>
    LET first == CHOOSE k \in 1..Len(pages) :
                    /\ HasPair(doc[pages[k]])
                    /\ \A j \in 1..(k - 1) : ~HasPair(doc[pages[j]])
    IN  /\ \A k \in 1..(Len(pages) - 1) : pages[k + 1] = pages[k] + 1
        /\ read_result.kind = "dict"
        /\ PairOf(doc[pages[first]], read_result.book_JAN)
        /\ read_result.rendered = SubSeq(pages, 1, first)

\* C7: for 1 <= window <= page_count, pageSelector with "first" returns
\* first_page = 1 and last_page - first_page + 1 = window, without raising.
C7_FirstAnchorWindow ==
    (/\ SelCalled
     /\ starting_point = "first"
     /\ 1 <= number_of_pages /\ number_of_pages <= Len(doc))
    =>
    /\ sel_result.kind = "return"
    /\ sel_result.first_page = 1
    /\ sel_result.last_page - sel_result.first_page + 1 = number_of_pages

\* C8: for 1 <= window <= page_count, the end-anchored selection covers exactly
\* the last `window` pages, in pageSelector (last_page = page_count and
\* last_page - first_page + 1 = window) and in read_code's page range.
C8_EndAnchorWindow ==
    (/\ starting_point = "end"
     /\ 1 <= number_of_pages /\ number_of_pages <= Len(doc))
    =>
    /\ SelCalled =>
          /\ sel_result.kind = "return"
          /\ sel_result.last_page = Len(doc)
          /\ sel_result.last_page - sel_result.first_page + 1 = number_of_pages
    /\ (ReadCalled /\ pdf_is_pdf) =>
          /\ read_result.kind \in {"dict", "path"}
          /\ RangePages(read_result) =
                [k \in 1..number_of_pages |-> Len(doc) - number_of_pages + k]

\* C8's case: both selections were made, end-anchored, with a window strictly
\* inside the document
C8_Witness ==
    /\ SelCalled /\ ReadCalled /\ pdf_is_pdf
    /\ starting_point = "end"
    /\ 1 < number_of_pages /\ number_of_pages < Len(doc)
    /\ sel_result.kind = "return"
    /\ read_result.kind = "path"
    /\ Len(read_result.rendered) = number_of_pages

\* C9: whenever window > page_count, for both anchors, pageSelector raises
\* ValueError and read_code raises its range error before rendering any page.
C9_WindowTooLargeRaises ==
    number_of_pages > Len(doc) =>
        /\ SelCalled => sel_result.kind = "ValueError"
        /\ ReadCalled =>
              /\ read_result.kind \in {"RangeError", "NotPdfError"}
              /\ pdf_is_pdf => read_result.kind = "RangeError"
              /\ read_result.rendered = <<>>

\* C9's case: a first-anchored window one page longer than the document, both
\* selections refused
C9_Witness ==
    /\ SelCalled /\ ReadCalled /\ pdf_is_pdf
    /\ starting_point = "first"
    /\ number_of_pages = Len(doc) + 1
    /\ sel_result.kind = "ValueError"
    /\ read_result.kind = "RangeError"

----------------------------------------------------------------------------
(* Properties of add_database, checked under SpecStore *)

\* C1: after any sequence of add_database calls on an absent or empty store,
\* no two rows of the store have the same isbn.
C1_IsbnUnique ==
    \A i, j \in 1..Len(csv_rows) : i # j => csv_rows[i] # csv_rows[j]

\* C2: a call with a record whose isbn is already in the store is rejected as
\* a duplicate and leaves the rows as they were (a call whose write the file
\* system refuses is not the claim's case).
C2_DuplicateRejected ==
    (last_add.dup /\ last_add.result # "OSError") =>
        /\ last_add.result = "DuplicateError"
        /\ csv_rows = last_add.before

----------------------------------------------------------------------------
(* Properties of main, checked under SpecMain *)

Files == 1..Len(pdf_files)
InList(seq, f) == \E k \in 1..Len(seq) : seq[k] = f

\* the terminal states of a file
Resolved(f)        == f \in stored /\ f \in copied
StillUnresolved(f) == InList(still_cant_find, f)

\* C4: an error raised while processing one file, in either pass, never
\* aborts the batch: every remaining file is still processed.
C4_BatchNeverAborts ==
    /\ pc # "aborted"
    /\ pc = "done" => \A f \in Files : outcome[f] # "pending"

\* C5: a file whose barcode was read but whose ISBN the catalog does not know
\* (get_info raises not-found) is in the unresolved set, queued for the manual
\* pass.
C5_NotFoundIsQueued ==
    \A f \in Files :
        outcome[f] = "LookupNotFound" => InList(error_pathes, f)

\* C10: when main has run to completion every file is in exactly one terminal
\* state, Resolved or StillUnresolved.
C10_EveryFileTerminal ==
    pc = "done" =>
        \A f \in Files : (Resolved(f) \/ StillUnresolved(f))
                         /\ ~(Resolved(f) /\ StillUnresolved(f))

====
